---- MODULE Spec2Model ----
(***************************************************************************)
(* Model of src/src/lib.rs: the zero-copy decode of an ExampleKey from a   *)
(* Bytes chunk (Request::try_from), the ExampleService handler             *)
(* (poll_ready / call) and the pipeline server_networking_code.            *)
(*                                                                         *)
(* A u64 does not fit TLC's integers, so a u64 value is written as its     *)
(* four 16-bit limbs, most significant first: <<l3, l2, l1, l0>> stands    *)
(* for l3*2^48 + l2*2^32 + l1*2^16 + l0.                                   *)
(***************************************************************************)
EXTENDS Integers, Sequences, FiniteSets, TLC

\* ---------------------------------------------------------------- bounds
MaxLen == 9
MaxOps == 3

\* The byte values buffers are built from.
Byte == {0, 1, 255}
\* The 16-bit limbs keys are built from.
Limb == {0, 1, 255, 256, 65535}

\* ------------------------------------------------------------- constants
\* lib.rs:79  const REQUEST: &[u8] = &[0xff; 4];
REQUEST == <<255, 255, 255, 255>>

\* lib.rs:9-11  size_of::<ExampleKey>() : #[repr(C)] struct of one U64
SizeOfExampleKey == 8

\* -------------------------------------------------------- value encoding
\* Option<T> is a sequence of length at most one.
None == <<>>
Some(x) == <<x>>

\* Result<T, ()>
Ok(x) == [tag |-> "Ok", val |-> <<x>>]
Err == [tag |-> "Err", val |-> <<>>]
IsOk(r) == r.tag = "Ok"
IsErr(r) == r.tag = "Err"
\* Result::unwrap on an Ok
Unwrapped(r) == r.val[1]

\* lib.rs:47  struct ExampleResponse;
ExampleResponse == "ExampleResponse"

\* A shared reference &'a Bytes: the name of the borrowed local and the bytes
\* it points at.
Ref(name, data) == [of |-> name, data |-> data]

\* ------------------------------------------------------ ExampleKey (9-11)
\* U64<BigEndian>::get on the 8 bytes of the key: bytes 1..2 are the most
\* significant limb.
U64BigEndianGet_LittleEndian(s) ==
    << s[8] * 256 + s[7], s[6] * 256 + s[5], s[4] * 256 + s[3], s[2] * 256 + s[1] >>

U64BigEndianGet(s) ==
    << s[1] * 256 + s[2], s[3] * 256 + s[4], s[5] * 256 + s[6], s[7] * 256 + s[8] >>

\* AsBytes::as_bytes of ExampleKey(U64::new(k)): the 8 big-endian bytes of k.
ExampleKeyAsBytes_LittleEndian(k) ==
    << k[4] % 256, k[4] \div 256, k[3] % 256, k[3] \div 256,
       k[2] % 256, k[2] \div 256, k[1] % 256, k[1] \div 256 >>

ExampleKeyAsBytes(k) ==
    << k[1] \div 256, k[1] % 256, k[2] \div 256, k[2] % 256,
       k[3] \div 256, k[3] % 256, k[4] \div 256, k[4] % 256 >>

\* The u64 with value n, for 0 <= n < 65536.
U64Small(n) == <<0, 0, 0, n>>

\* ------------------------------------------------------- Request (32-45)
\* lib.rs:33  pub struct Request<K>(pub K);
Request(k) == [payload |-> k]

\* LayoutVerified<&'a [u8], ExampleKey>: the byte slice is borrowed from the
\* buffer `bytes` refers to; nothing is copied.
LayoutVerifiedRef(bytes) == [storage |-> "borrowed", of |-> bytes.of, slice |-> bytes.data]

\* lib.rs:43  LayoutVerified::new_unaligned(bytes.as_ref())
new_unaligned_Truncating(bytes) ==
    IF Len(bytes.data) >= SizeOfExampleKey
    THEN Some(LayoutVerifiedRef(Ref(bytes.of, SubSeq(bytes.data, 1, SizeOfExampleKey))))
    ELSE None

new_unaligned(bytes) ==
    IF Len(bytes.data) = SizeOfExampleKey
    THEN Some(LayoutVerifiedRef(bytes))
    ELSE None

\* lib.rs:42-44  Request::try_from(bytes: &'a Bytes)
try_from_Unchecked(bytes) == Ok(Request(LayoutVerifiedRef(bytes)))

try_from(bytes) ==
    LET v == new_unaligned(bytes)
    IN  IF v = None THEN Err ELSE Ok(Request(v[1]))

\* request.0.0.get(): the key read through the view
KeyOf(request) == U64BigEndianGet(request.payload.slice)

\* The decode entry points lib.rs defines: the impls of TryFrom for Request,
\* each with the argument it takes and the storage of the view it returns.
DecodeEntryPoints == { [argument |-> "&Bytes", storage |-> "borrowed"] }

\* The outcome of decoding `data`, held by the local `name`, through an entry point.
DecodeVia(e, name, data) == try_from(Ref(name, data))

IsOwning(request) == request.payload.storage = "owned"

\* ------------------------------------------------ ExampleService (49-68)
\* lib.rs:49  struct ExampleService;  The unit struct has no fields; the model
\* adds the log a handler stub would keep: the requests call has received.
NewService == [calls |-> <<>>]

\* lib.rs:59-61  poll_ready returns Poll::Ready(Ok(()))
poll_ready == [poll |-> "Ready", val |-> Ok("unit")]

\* lib.rs:63-67  call returns ok(ExampleResponse): a future that is complete
\* from the start and yields Ok(ExampleResponse) when first polled.
call_Pending(request) == [state |-> "pending", output |-> Ok(ExampleResponse)]

call(request) == [state |-> "ready", output |-> Ok(ExampleResponse)]

CallOn(s, request) == [s EXCEPT !.calls = Append(@, request)]

\* Polling a future once (.await): Ready<T> yields its value at the first poll.
PollFuture(f) ==
    IF f.state = "ready"
    THEN [poll |-> "Ready", val |-> Some(f.output)]
    ELSE [poll |-> "Pending", val |-> None]

\* ------------------------------------------------------------------ state
VARIABLES
    bytes,             \* the buffer a caller of Request::try_from passes
    sent_key,          \* Some(k) when bytes was written as the byte image of key k
    decoded,           \* the Result that caller got, None before the call
    pc,                \* position in server_networking_code
    incoming_request,  \* lib.rs:82  the local Bytes
    parse_result,      \* lib.rs:84  the Result returned by Request::try_from
    parsed_request,    \* lib.rs:84  the local Request
    client             \* a caller of ExampleService

vars == << bytes, sent_key, decoded, pc, incoming_request, parse_result,
           parsed_request, client >>

decoder == << bytes, sent_key, decoded >>

pipeline == << pc, incoming_request, parse_result, parsed_request >>

\* Byte buffers of every length up to MaxLen.
Inputs == UNION { [1..n -> Byte] : n \in 0..MaxLen }

\* Keys a caller may encode.
Keys == [1..4 -> Limb]

\* The buffers the caller of ExampleService decodes its requests from.
ClientBuffers == { <<0, 0, 0, 0, 0, 0, 0, 1>>, <<255, 255, 255, 255, 255, 255, 255, 255>> }

Uninit == [state |-> "uninit", data |-> <<>>]
Live(data) == [state |-> "live", data |-> data]
Dropped(b) == [b EXCEPT !.state = "dropped"]

InitPipeline ==
    /\ pc = "source"
    /\ incoming_request = Uninit
    /\ parse_result = None
    /\ parsed_request = None

InitClient ==
    client = [service |-> NewService, history |-> <<>>, polls |-> <<>>,
              pending |-> <<>>, outputs |-> <<>>]

\* The library and its pipeline; the buffer decoded directly is the one the
\* source itself builds.
Init ==
    /\ bytes = REQUEST
    /\ sent_key = None
    /\ decoded = None
    /\ InitPipeline
    /\ InitClient

\* Request::try_from on its own: any buffer, or the byte image of a key.
InitDecode ==
    /\ \/ bytes \in Inputs /\ sent_key = None
       \/ \E k \in Keys : bytes = ExampleKeyAsBytes(k) /\ sent_key = Some(k)
    /\ decoded = None
    /\ InitPipeline
    /\ InitClient

\* --------------------------------------------- Request::try_from (39-45)
\* A caller passes a reference to its buffer to Request::try_from.
decode ==
    /\ decoded = None
    /\ decoded' = Some(try_from(Ref("bytes", bytes)))
    /\ UNCHANGED << bytes, sent_key, pipeline, client >>

\* --------------------------------------- server_networking_code (75-86)
\* lib.rs:75-78, 85  As written the function is rejected by rustc (E0597 at
\* the call of lib.rs:85: the argument must borrow incoming_request for the
\* caller's 'a; the comment at lib.rs:70-74 says so) and has no run.  With the
\* bound of lib.rs:77 relaxed so that it builds, the statements run as below.
build ==
    /\ pc = "source"
    /\ \/ pc' = "E0597"
       \/ pc' = "l82"
    /\ UNCHANGED << incoming_request, parse_result, parsed_request, decoder, client >>

\* A panic unwinds the frame: the live locals are dropped.
Unwind ==
    /\ pc' = "panicked"
    /\ incoming_request' = Dropped(incoming_request)
    /\ parsed_request' = None

\* lib.rs:82  let incoming_request = Bytes::from(REQUEST);
Line82 ==
    /\ incoming_request' = Live(REQUEST)
    /\ pc' = "l84"
    /\ UNCHANGED << parse_result, parsed_request >>

\* lib.rs:84  let parsed_request = Request::try_from(&incoming_request).unwrap();
Line84 ==
    LET r == try_from(Ref("incoming_request", incoming_request.data))
    IN  /\ parse_result' = Some(r)
        /\ IF IsOk(r)
           THEN /\ parsed_request' = Some(Unwrapped(r))
                /\ pc' = "l85"
                /\ UNCHANGED incoming_request
           ELSE Unwind

\* One step of server_networking_code.  Control never reaches lib.rs:85, the
\* statement rustc rejects: REQUEST has 4 bytes and lib.rs:84 panics; the
\* function has no step there.
server_networking_code ==
    /\ CASE pc = "l82" -> Line82
         [] pc = "l84" -> Line84
         [] OTHER -> FALSE
    /\ UNCHANGED << decoder, client >>

\* ------------------------------------------- a caller of ExampleService
\* ExampleService driven by a caller: poll_ready and call in any order, each
\* returned future awaited in turn.  The request passed to call is the one
\* Request::try_from returns for the caller's buffer.
client_poll_ready ==
    /\ Len(client.history) < MaxOps
    /\ client' = [client EXCEPT !.polls = Append(@, poll_ready),
                                !.history = Append(@, "poll_ready")]
    /\ UNCHANGED << decoder, pipeline >>

client_call ==
    /\ Len(client.history) < MaxOps
    /\ \E b \in ClientBuffers :
          LET r == try_from(Ref("client_buffer", b))
          IN  /\ IsOk(r)
              /\ client' = [client EXCEPT !.service = CallOn(@, Unwrapped(r)),
                                          !.pending = Append(@, call(Unwrapped(r))),
                                          !.history = Append(@, "call")]
    /\ UNCHANGED << decoder, pipeline >>

client_await ==
    /\ client.pending # <<>>
    /\ LET p == PollFuture(Head(client.pending))
       IN  IF p.poll = "Ready"
           THEN client' = [client EXCEPT !.pending = Tail(@),
                                         !.outputs = Append(@, p.val[1])]
           ELSE UNCHANGED client
    /\ UNCHANGED << decoder, pipeline >>

\* ---------------------------------------------------------- specifications
Next ==
    \/ decode
    \/ build
    \/ server_networking_code
    \/ client_poll_ready
    \/ client_call
    \/ client_await

Spec == Init /\ [][Next]_vars

\* Every returned future is awaited.
SpecLive == Init /\ [][Next]_vars /\ WF_vars(client_await)

\* Request::try_from on its own, over every input.
SpecDecode == InitDecode /\ [][decode]_vars

\* ----------------------------------------------------------------- claims
\* The i-th most significant byte (1..8) of a u64.
BigEndianDigit(k, i) ==
    LET limb == k[(i + 1) \div 2]
    IN  IF i % 2 = 1 THEN limb \div 256 ELSE limb % 256

Decoded == decoded # None
DecodeResult == decoded[1]

\* C1: decoding a buffer of exactly 8 bytes returns Ok, and the key read from
\* the view is the big-endian reading of the 8 bytes: its i-th most significant
\* byte is b[i]; 00 00 00 00 00 00 00 01 decodes to key 1.
C1_DecodeEightBytes ==
    (Decoded /\ Len(bytes) = 8) =>
        /\ IsOk(DecodeResult)
        /\ \A i \in 1..8 :
              BigEndianDigit(KeyOf(Unwrapped(DecodeResult)), i) = bytes[i]
        /\ (bytes = <<0, 0, 0, 0, 0, 0, 0, 1>> =>
              KeyOf(Unwrapped(DecodeResult)) = U64Small(1))

C1_Witness ==
    /\ Decoded
    /\ bytes = <<0, 0, 0, 0, 0, 0, 1, 255>>
    /\ IsOk(DecodeResult)
    /\ KeyOf(Unwrapped(DecodeResult)) = U64Small(511)

\* C2: decoding a buffer whose length is not 8 (0 and lengths above 8 included)
\* returns the error value, which carries no view or Request; ff ff ff ff fails.
C2_DecodeOtherLengths ==
    (Decoded /\ Len(bytes) # 8) =>
        /\ IsErr(DecodeResult)
        /\ DecodeResult.val = <<>>

C2_Witness ==
    /\ Decoded
    /\ Len(bytes) = 9
    /\ IsErr(DecodeResult)

\* C3: the pipeline never reaches a panic: a decode failure is returned to the
\* caller as a value.
C3_NeverPanics == pc # "panicked"

\* C4: every request handed to the handler's call carries an owning view.
C4_OnlyOwningViewsReachCall ==
    \A i \in DOMAIN client.service.calls : IsOwning(client.service.calls[i])

\* C7: there is a decode entry point for each of the two flavours, consuming a
\* buffer (owning view) and borrowing it (borrowing view), and the two agree on
\* every buffer: both fail, or both succeed with equal keys.
C7_TwoEntryPointsAgree ==
    Decoded =>
        \A arg \in { [argument |-> "Bytes", storage |-> "owned"],
                     [argument |-> "&Bytes", storage |-> "borrowed"] } :
            \E e \in DecodeEntryPoints :
                /\ e = arg
                /\ LET r == DecodeVia(e, "bytes", bytes)
                   IN  /\ r.tag = DecodeResult.tag
                       /\ IsOk(r) => KeyOf(Unwrapped(r)) = KeyOf(Unwrapped(DecodeResult))

\* C8: a key written as its 8-byte image and then decoded is read back
\* unchanged.
C8_RoundTrip ==
    (Decoded /\ sent_key # None) =>
        /\ IsOk(DecodeResult)
        /\ KeyOf(Unwrapped(DecodeResult)) = sent_key[1]

C8_Witness ==
    /\ Decoded
    /\ sent_key = Some(<<1, 256, 255, 65535>>)
    /\ IsOk(DecodeResult)

\* C9: whatever poll_ready and call operations came before, the future of each
\* call completes, and completes with Ok(ExampleResponse): the i-th call leads
\* to the i-th output, and no output is an error.
C9_CallYieldsResponse ==
    /\ [](\A i \in DOMAIN client.outputs : client.outputs[i] = Ok(ExampleResponse))
    /\ \A i \in 1..MaxOps :
          (Len(client.service.calls) >= i) ~> (Len(client.outputs) >= i)

C9_Witness ==
    /\ client.history = <<"call", "poll_ready", "call">>
    /\ Len(client.outputs) = 2
    /\ client.outputs[2] = Ok(ExampleResponse)

\* C10: in server_networking_code the incoming request is ff ff ff ff, the
\* decode returns the error value, and control never reaches lib.rs:85: no
\* Request exists to pass to call, call is not invoked, no response is obtained.
C10_FixedRequestNeverDispatched ==
    /\ incoming_request.state # "uninit" => incoming_request.data = <<255, 255, 255, 255>>
    /\ parse_result # None => IsErr(parse_result[1])
    /\ parsed_request = None
    /\ pc \in {"source", "E0597", "l82", "l84", "panicked"}

C10_Witness ==
    /\ pc = "panicked"
    /\ parse_result = Some(Err)
    /\ incoming_request.data = REQUEST
====
